---------------------------- MODULE Spec2Model ----------------------------
(***************************************************************************)
(* TokenChunker (src/src/chonkie/chunker/token.py): construction, the      *)
(* single-text entry point chunk() and the batched entry point             *)
(* chunk_batch(), run against two tokenizers.                              *)
(*                                                                         *)
(* A text is a sequence of one-character strings.  A token id is a natural *)
(* number.  A Chunk is a record [text, start_index, end_index,             *)
(* token_count].  Every tokenizer call is appended to a call log.          *)
(***************************************************************************)
EXTENDS Integers, Sequences, FiniteSets, TLC

\* ------------------------------------------------------------------ bounds

\* Largest chunk_size handed to the constructor.
MaxChunkSize == 4
\* Longest text handed to chunk().
MaxTextLen == 4
\* Longest list of texts handed to chunk_batch().
MaxBatchLen == 2
\* Constructor arguments go down to -MaxNegative.
MaxNegative == 1
\* A float chunk_overlap is num / Den (binary fractions, exact as floats).
Den == 4

Alphabet == {"a", "b", " "}

TextsUpTo(n) == UNION {[1..k -> Alphabet] : k \in 0..n}

Texts == TextsUpTo(MaxTextLen)

\* The texts chunk_batch() is run on.
BatchTexts ==
    { <<>>, <<" ">>, <<"a", "b">>, <<" ", "a">>, <<"a", " ", " ", "b">>,
      <<"b", "a", "b", "a">> }

Batches == UNION {[1..k -> BatchTexts] : k \in 0..MaxBatchLen}

\* Python's None for an absent batch_size (given batch sizes are positive).
None == 0

\* chunk_batch's batch_size: absent, or a positive integer.
BatchSizes == {None} \cup (1..(MaxBatchLen + 1))

Tokenizers == {"char", "wordpiece"}

\* ----------------------------------------------------------------- helpers

Min(a, b) == IF a <= b THEN a ELSE b

Max(a, b) == IF a >= b THEN a ELSE b

\* Python's s[lo:hi] for 0 <= lo, as a 1-based subsequence.
Slice(s, lo, hi) == SubSeq(s, lo + 1, Min(hi, Len(s)))

\* Python's s[-k:] for k > 0; s[-0:] is s[0:], the whole list.
LastK(s, k) == IF k = 0 THEN s ELSE Slice(s, Max(Len(s) - k, 0), Len(s))

RECURSIVE Concat(_)
Concat(ss) == IF ss = <<>> THEN <<>> ELSE Head(ss) \o Concat(Tail(ss))

\* Python's int(num * size / den) for a float num/den: truncation toward zero.
TruncDiv(n, d) == IF n >= 0 THEN n \div d ELSE -((-n) \div d)

\* IsBlank as `if not text`: only the empty text returns early.
IsBlank_EmptyOnly(text) == text = <<>>

\* Python's str.strip() leaves nothing: empty or whitespace only.
IsBlank(text) == \A i \in DOMAIN text : text[i] = " "

\* ------------------------------------------------------------- tokenizers

\* Character-level tokenizer: one token per character; decode concatenates
\* and decode(encode(t)) = t.
CharId(c) == CASE c = "a" -> 1 [] c = "b" -> 2 [] OTHER -> 3

IdChar(t) == CASE t = 1 -> "a" [] t = 2 -> "b" [] OTHER -> " "

\* WordPiece tokenizer: words are split on whitespace; a word's first
\* character is a word-start token (1, 2), every later one a continuation
\* token (3 = ##a, 4 = ##b).
WPStart(c) == IF c = "a" THEN 1 ELSE 2

WPCont(c) == IF c = "a" THEN 3 ELSE 4

WPIsCont(t) == t >= 3

WPLetter(t) == IF t = 1 \/ t = 3 THEN "a" ELSE "b"

WPEncode(text) ==
    LET F[i \in 0..Len(text)] ==
            IF i = 0 THEN <<>>
            ELSE IF text[i] = " " THEN F[i - 1]
            ELSE Append(F[i - 1],
                        IF i = 1 \/ text[i - 1] = " "
                        THEN WPStart(text[i]) ELSE WPCont(text[i]))
    IN  F[Len(text)]

\* WordPiece decode: the first token is written as it is in the vocabulary
\* (a continuation keeps its ## prefix); a later continuation is glued to
\* what precedes it, a later word-start follows one space.
WPPiece(ids, i) ==
    IF i = 1
    THEN IF WPIsCont(ids[i]) THEN <<"#", "#", WPLetter(ids[i])>>
         ELSE <<WPLetter(ids[i])>>
    ELSE IF WPIsCont(ids[i]) THEN <<WPLetter(ids[i])>>
         ELSE <<" ", WPLetter(ids[i])>>

WPDecode(ids) == Concat([i \in DOMAIN ids |-> WPPiece(ids, i)])

Encode(tok, text) ==
    IF tok = "char" THEN [i \in DOMAIN text |-> CharId(text[i])]
    ELSE WPEncode(text)

Decode(tok, ids) ==
    IF tok = "char" THEN [i \in DOMAIN ids |-> IdChar(ids[i])]
    ELSE WPDecode(ids)

EncodeBatch(tok, texts) == [i \in DOMAIN texts |-> Encode(tok, texts[i])]

DecodeBatch(tok, groups) == [i \in DOMAIN groups |-> Decode(tok, groups[i])]

\* One entry of the call log.
Call(op, arg) == [op |-> op, arg |-> arg]

\* ---------------------------------------------------------------- chunker

\* __init__'s three checks: the argument ranges that raise ValueError.
\* An overlap is [kind |-> "int", val |-> v] or [kind |-> "float", val |-> num]
\* standing for the float num / Den.
InitRaises(size, overlap) ==
    \/ size <= 0
    \/ overlap.kind = "int" /\ overlap.val >= size
    \/ overlap.kind = "float" /\ overlap.val >= Den

\* self.chunk_overlap: the int as given, else int(chunk_overlap * chunk_size).
NormalizedOverlap(size, overlap) ==
    IF overlap.kind = "int" THEN overlap.val
    ELSE TruncDiv(overlap.val * size, Den)

\* TokenGroups walking range(0, len(tokens), size): the overlap is ignored.
TokenGroups_StrideIsSize(tokens, size, overlap) ==
    LET n     == Len(tokens)
        count == (n + size - 1) \div size
    IN  [k \in 1..count |->
            Slice(tokens, (k - 1) * size, Min((k - 1) * size + size, n))]

\* TokenGroups with windows ending at start + stride instead of start + size.
TokenGroups_ShortWindow(tokens, size, overlap) ==
    LET n      == Len(tokens)
        stride == size - overlap
        count  == (n + stride - 1) \div stride
    IN  [k \in 1..count |->
            Slice(tokens, (k - 1) * stride, Min((k - 1) * stride + stride, n))]

\* chunk()'s list comprehension over range(0, len(tokens), size - overlap).
TokenGroups(tokens, size, overlap) ==
    LET n      == Len(tokens)
        stride == size - overlap
        count  == (n + stride - 1) \div stride
    IN  [k \in 1..count |->
            Slice(tokens, (k - 1) * stride, Min((k - 1) * stride + size, n))]

\* _token_group_generator: the same walk, as the generator's loop.
RECURSIVE GroupsFrom(_, _, _, _)
GroupsFrom(tokens, start, size, overlap) ==
    IF start >= Len(tokens) THEN <<>>
    ELSE <<Slice(tokens, start, Min(start + size, Len(tokens)))>>
         \o GroupsFrom(tokens, start + (size - overlap), size, overlap)

TokenGroupGenerator(tokens, size, overlap) == GroupsFrom(tokens, 0, size, overlap)

\* The token list whose decoded length _create_chunks subtracts: the last
\* `overlap` tokens of a group longer than that, else the whole group.
OverlapGroup(group, overlap) ==
    IF Len(group) > overlap THEN LastK(group, overlap) ELSE group

\* OverlapLengths without the `if self.chunk_overlap > 0` branch: for overlap
\* 0 the slice [-0:] is the whole group.
OverlapLengths_NoGuard(tok, overlap, groups) ==
    LET ogroups == [i \in DOMAIN groups |-> OverlapGroup(groups[i], overlap)]
    IN  [lengths |-> [i \in DOMAIN groups |-> Len(Decode(tok, ogroups[i]))],
         calls   |-> <<Call("decode_batch", ogroups)>>]

\* _create_chunks, lines 60-69: the overlap lengths and the decode_batch call
\* that computes them.
OverlapLengths(tok, overlap, groups) ==
    IF overlap > 0
    THEN LET ogroups == [i \in DOMAIN groups |-> OverlapGroup(groups[i], overlap)]
         IN  [lengths |-> [i \in DOMAIN groups |-> Len(Decode(tok, ogroups[i]))],
              calls   |-> <<Call("decode_batch", ogroups)>>]
    ELSE [lengths |-> [i \in DOMAIN groups |-> 0], calls |-> <<>>]

\* _create_chunks, lines 72-85: the loop over the zipped lists from position i
\* with the running cursor current_index.
RECURSIVE ChunkLoop(_, _, _, _, _)
ChunkLoop(chunk_texts, overlap_lengths, token_counts, i, current_index) ==
    IF i > Min(Len(chunk_texts), Min(Len(overlap_lengths), Len(token_counts)))
    THEN <<>>
    ELSE LET start_index == current_index
             end_index   == start_index + Len(chunk_texts[i])
         IN  <<[text        |-> chunk_texts[i],
                start_index |-> start_index,
                end_index   |-> end_index,
                token_count |-> token_counts[i]]>>
             \o ChunkLoop(chunk_texts, overlap_lengths, token_counts, i + 1,
                          end_index - overlap_lengths[i])

CreateChunks(tok, overlap, chunk_texts, token_groups, token_counts) ==
    LET ol == OverlapLengths(tok, overlap, token_groups)
    IN  [chunks |-> ChunkLoop(chunk_texts, ol.lengths, token_counts, 1, 0),
         calls  |-> ol.calls]

\* chunk(text): the chunks returned and the tokenizer calls made.
ChunkOp(tok, size, overlap, text) ==
    IF IsBlank(text) THEN [chunks |-> <<>>, calls |-> <<>>]
    ELSE LET text_tokens  == Encode(tok, text)
             token_groups == TokenGroups(text_tokens, size, overlap)
             token_counts == [i \in DOMAIN token_groups |-> Len(token_groups[i])]
             chunk_texts  == DecodeBatch(tok, token_groups)
             made         == CreateChunks(tok, overlap, chunk_texts,
                                          token_groups, token_counts)
         IN  [chunks |-> made.chunks,
              calls  |-> <<Call("encode", text), Call("decode_batch", token_groups)>>
                         \o made.calls]

\* Python's full.find(sub, start): the first position >= start where sub
\* occurs, -1 when there is none; a negative start counts from the end.
Find(full, sub, start) ==
    LET from == IF start < 0 THEN Max(Len(full) + start, 0) ELSE start
        hits == {p \in from..(Len(full) - Len(sub)) :
                    SubSeq(full, p + 1, p + Len(sub)) = sub}
    IN  IF hits = {} THEN -1
        ELSE CHOOSE p \in hits : \A q \in hits : p <= q

\* _process_batch, lines 131-137: the search loop from position i with the
\* cursor current_index.
RECURSIVE FindLoop(_, _, _, _)
FindLoop(texts, full_text, i, current_index) ==
    IF i > Len(texts) THEN <<>>
    ELSE LET start_index == Find(full_text, texts[i], current_index)
             end_index   == start_index + Len(texts[i])
         IN  <<<<start_index, end_index>>>>
             \o FindLoop(texts, full_text, i + 1, end_index)

\* _process_batch(chunks, full_text), chunks given by their token lists.  No
\* method of the class calls it.
ProcessBatch(tok, token_lists, full_text) ==
    LET texts       == DecodeBatch(tok, token_lists)
        index_pairs == FindLoop(texts, full_text, 1, 0)
    IN  [i \in DOMAIN texts |->
            [text        |-> texts[i],
             start_index |-> index_pairs[i][1],
             end_index   |-> index_pairs[i][2],
             token_count |-> Len(token_lists[i])]]

\* TextLoop without the `if not tokens: continue` branch.
RECURSIVE TextLoop_NoSkip(_, _, _, _, _)
TextLoop_NoSkip(tok, size, overlap, tokens_list, i) ==
    IF i > Len(tokens_list) THEN [result |-> <<>>, calls |-> <<>>]
    ELSE LET tokens       == tokens_list[i]
             rest         == TextLoop_NoSkip(tok, size, overlap, tokens_list, i + 1)
             token_groups == TokenGroupGenerator(tokens, size, overlap)
             token_counts == [k \in DOMAIN token_groups |-> Len(token_groups[k])]
             chunk_texts  == DecodeBatch(tok, token_groups)
             made         == CreateChunks(tok, overlap, chunk_texts,
                                          token_groups, token_counts)
         IN  [result |-> <<made.chunks>> \o rest.result,
              calls  |-> <<Call("decode_batch", token_groups)>>
                         \o made.calls \o rest.calls]

\* _process_text_batch, lines 150-168: the loop over tokens_list from
\* position i.
RECURSIVE TextLoop(_, _, _, _, _)
TextLoop(tok, size, overlap, tokens_list, i) ==
    IF i > Len(tokens_list) THEN [result |-> <<>>, calls |-> <<>>]
    ELSE LET tokens == tokens_list[i]
             rest   == TextLoop(tok, size, overlap, tokens_list, i + 1)
         IN  IF tokens = <<>>
             THEN [result |-> <<<<>>>> \o rest.result, calls |-> rest.calls]
             ELSE LET token_groups == TokenGroupGenerator(tokens, size, overlap)
                      token_counts == [k \in DOMAIN token_groups |->
                                          Len(token_groups[k])]
                      chunk_texts  == DecodeBatch(tok, token_groups)
                      made         == CreateChunks(tok, overlap, chunk_texts,
                                                   token_groups, token_counts)
                  IN  [result |-> <<made.chunks>> \o rest.result,
                       calls  |-> <<Call("decode_batch", token_groups)>>
                                  \o made.calls \o rest.calls]

\* _process_text_batch(texts).
ProcessTextBatch(tok, size, overlap, texts) ==
    LET tokens_list == EncodeBatch(tok, texts)
        looped      == TextLoop(tok, size, overlap, tokens_list, 1)
    IN  [result |-> looped.result,
         calls  |-> <<Call("encode_batch", texts)>> \o looped.calls]

\* BatchSlice as texts[i : i + batch_size - 1]: one text short.
BatchSlice_OffByOne(texts, i, batch_size) ==
    Slice(texts, i, Min(i + batch_size - 1, Len(texts)))

\* chunk_batch, line 189: the sub-batch starting at i.
BatchSlice(texts, i, batch_size) == Slice(texts, i, Min(i + batch_size, Len(texts)))

\* chunk_batch, lines 187-191: the loop over range(0, len(texts), batch_size)
\* from i.
RECURSIVE BatchLoop(_, _, _, _, _, _)
BatchLoop(tok, size, overlap, texts, batch_size, i) ==
    IF i >= Len(texts) THEN [result |-> <<>>, calls |-> <<>>]
    ELSE LET one  == ProcessTextBatch(tok, size, overlap,
                                      BatchSlice(texts, i, batch_size))
             rest == BatchLoop(tok, size, overlap, texts, batch_size,
                               i + batch_size)
         IN  [result |-> one.result \o rest.result,
              calls  |-> one.calls \o rest.calls]

\* chunk_batch(texts, batch_size).
ChunkBatchOp(tok, size, overlap, texts, batch_size) ==
    IF batch_size # None
    THEN BatchLoop(tok, size, overlap, texts, batch_size, 0)
    ELSE ProcessTextBatch(tok, size, overlap, texts)

\* ------------------------------------------------------------------ state

VARIABLES
    pc,             \* "new", "ready" (constructed), "raised", "done"
    tokenizer,      \* the tokenizer the chunker was given
    arg_size,       \* the constructor's chunk_size argument
    arg_overlap,    \* the constructor's chunk_overlap argument
    chunk_size,     \* self.chunk_size
    chunk_overlap,  \* self.chunk_overlap
    op,             \* the entry point called: "none", "chunk", "chunk_batch"
    in_text,        \* chunk's text
    in_texts,       \* chunk_batch's texts
    in_batch_size,  \* chunk_batch's batch_size
    result,         \* what the call returned
    calls           \* the tokenizer calls the call made, in order

vars == <<pc, tokenizer, arg_size, arg_overlap, chunk_size, chunk_overlap,
          op, in_text, in_texts, in_batch_size, result, calls>>

SizeArgs == (0 - MaxNegative)..MaxChunkSize

OverlapArgs ==
    [kind : {"int"}, val : (0 - MaxNegative)..(MaxChunkSize + 1)]
    \cup [kind : {"float"}, val : (0 - MaxNegative)..(Den + 1)]

Init ==
    /\ pc = "new"
    /\ tokenizer = "char"
    /\ arg_size = 0
    /\ arg_overlap = [kind |-> "int", val |-> 0]
    /\ chunk_size = 0
    /\ chunk_overlap = 0
    /\ op = "none"
    /\ in_text = <<>>
    /\ in_texts = <<>>
    /\ in_batch_size = None
    /\ result = <<>>
    /\ calls = <<>>

\* TokenChunker(tokenizer, chunk_size, chunk_overlap)
Construct(tok, size, overlap) ==
    /\ pc = "new"
    /\ tokenizer' = tok
    /\ arg_size' = size
    /\ arg_overlap' = overlap
    /\ IF InitRaises(size, overlap)
       THEN /\ pc' = "raised"
            /\ UNCHANGED <<chunk_size, chunk_overlap>>
       ELSE /\ pc' = "ready"
            /\ chunk_size' = size
            /\ chunk_overlap' = NormalizedOverlap(size, overlap)
    /\ UNCHANGED <<op, in_text, in_texts, in_batch_size, result, calls>>

\* chunker.chunk(text)
Chunk(text) ==
    /\ pc = "ready"
    /\ LET r == ChunkOp(tokenizer, chunk_size, chunk_overlap, text)
       IN  /\ result' = r.chunks
           /\ calls' = r.calls
    /\ pc' = "done"
    /\ op' = "chunk"
    /\ in_text' = text
    /\ UNCHANGED <<tokenizer, arg_size, arg_overlap, chunk_size, chunk_overlap,
                   in_texts, in_batch_size>>

\* chunker.chunk_batch(texts, batch_size)
ChunkBatch(texts, batch_size) ==
    /\ pc = "ready"
    /\ LET r == ChunkBatchOp(tokenizer, chunk_size, chunk_overlap, texts, batch_size)
       IN  /\ result' = r.result
           /\ calls' = r.calls
    /\ pc' = "done"
    /\ op' = "chunk_batch"
    /\ in_texts' = texts
    /\ in_batch_size' = batch_size
    /\ UNCHANGED <<tokenizer, arg_size, arg_overlap, chunk_size, chunk_overlap,
                   in_text>>

Next ==
    \/ \E tok \in Tokenizers, size \in SizeArgs, overlap \in OverlapArgs :
          Construct(tok, size, overlap)
    \/ \E text \in Texts : Chunk(text)
    \/ \E texts \in Batches, batch_size \in BatchSizes :
          ChunkBatch(texts, batch_size)

Spec == Init /\ [][Next]_vars

\* ----------------------------------------------------------------- claims

ValidConfig == chunk_size > 0 /\ 0 <= chunk_overlap /\ chunk_overlap < chunk_size

ChunkDone == pc = "done" /\ op = "chunk"

\* The text is empty or holds nothing but whitespace.
OnlyWhitespace(text) == \A i \in 1..Len(text) : text[i] = " "

BatchDone == pc = "done" /\ op = "chunk_batch"

\* The token sequence of chunk's text.
TextTokens == Encode(tokenizer, in_text)

\* The constructor's arguments lie outside the documented ranges.
ArgsViolate ==
    \/ arg_size <= 0
    \/ arg_overlap.val < 0
    \/ arg_overlap.kind = "int" /\ arg_overlap.val >= arg_size
    \/ arg_overlap.kind = "float" /\ arg_overlap.val >= Den

\* C1: construction either raises or leaves 0 <= chunk_overlap < chunk_size
\* with chunk_size > 0, and arguments outside the ranges (chunk_size <= 0,
\* overlap >= chunk_size, fraction >= 1, overlap < 0) always raise.
C1_Original ==
    pc # "new" =>
        /\ pc = "raised" \/ ValidConfig
        /\ ArgsViolate => pc = "raised"

\* The stride walk over a token sequence of length n: one chunk per start
\* offset 0, stride, 2 * stride, ... < n, in that order, the k-th holding the
\* tokens [start, min(start + chunk_size, n)), and every token index covered.
StrideWalk(chunks, tokens) ==
    LET n      == Len(tokens)
        stride == chunk_size - chunk_overlap
        starts == {s \in 0..(n - 1) : s % stride = 0}
    IN  /\ Len(chunks) = Cardinality(starts)
        /\ \A k \in DOMAIN chunks :
              LET start == (k - 1) * stride
                  count == Min(start + chunk_size, n) - start
              IN  /\ start \in starts
                  /\ chunks[k].token_count = count
                  /\ 1 <= count /\ count <= chunk_size
                  /\ chunks[k].text
                       = Decode(tokenizer, SubSeq(tokens, start + 1, start + count))
        /\ \A j \in 0..(n - 1) :
              \E k \in DOMAIN chunks :
                  /\ (k - 1) * stride <= j
                  /\ j < (k - 1) * stride + chunks[k].token_count

\* C2 as stated: with a valid configuration, chunk(text) on any text with
\* n >= 1 tokens returns the stride walk's chunks.
C2_Original ==
    (ChunkDone /\ ValidConfig /\ Len(TextTokens) >= 1)
        => StrideWalk(result, TextTokens)

\* C2 amended: the same, for a text that is not whitespace-only (chunk
\* returns no chunk for a whitespace-only text, whatever its tokens).
C2_StrideWalk ==
    (ChunkDone /\ ValidConfig /\ Len(TextTokens) >= 1 /\ ~OnlyWhitespace(in_text))
        => StrideWalk(result, TextTokens)

\* C2's case: overlapping windows, the last one shorter than chunk_size.
C2_Witness ==
    /\ ChunkDone /\ ValidConfig /\ chunk_overlap > 0
    /\ Len(result) >= 3
    /\ result[Len(result)].token_count < chunk_size
    /\ result[1].token_count = chunk_size

\* C3: chunk's chunks start at 0, are in non-decreasing start_index order
\* (so never negative), and end_index - start_index = len(text), for every
\* tokenizer.
C3_Original ==
    (ChunkDone /\ result # <<>>) =>
        /\ result[1].start_index = 0
        /\ \A k \in DOMAIN result :
              /\ result[k].start_index >= 0
              /\ result[k].end_index - result[k].start_index = Len(result[k].text)
              /\ k > 1 => result[k - 1].start_index <= result[k].start_index

\* Strategy B for one text of a batch: the chunks _process_batch builds from
\* the text's token groups.
StrategyB(text) ==
    ProcessBatch(tokenizer,
                 TokenGroupGenerator(Encode(tokenizer, text), chunk_size, chunk_overlap),
                 text)

\* C4: a returned chunk_batch result holds, per text, the chunks located by
\* substring search from that text's own cursor; a chunk that cannot be
\* located makes the call raise, so none is in a returned result.
C4_Original ==
    (BatchDone /\ ValidConfig) =>
        \A i \in DOMAIN in_texts :
            LET expected == StrategyB(in_texts[i])
            IN  /\ \A k \in DOMAIN expected : expected[k].start_index # -1
                /\ result[i] = expected

\* C5 as stated: with a valid configuration and 1 <= n <= chunk_size tokens,
\* chunk(text) returns exactly one chunk, with token_count = n.
C5_Original ==
    (ChunkDone /\ ValidConfig
        /\ 1 <= Len(TextTokens) /\ Len(TextTokens) <= chunk_size)
      => /\ Len(result) = 1
         /\ result[1].token_count = Len(TextTokens)

\* C5 amended: with a valid configuration, 1 <= n <= chunk_size tokens and a
\* text that is not whitespace-only, chunk's first chunk spans the whole
\* token sequence (token_count = n), and it is the only chunk exactly when
\* n <= chunk_size - chunk_overlap (later starts below n give more chunks).
C5_OneChunk ==
    (ChunkDone /\ ValidConfig /\ ~OnlyWhitespace(in_text)
        /\ 1 <= Len(TextTokens) /\ Len(TextTokens) <= chunk_size)
      => /\ Len(result) >= 1
         /\ result[1].token_count = Len(TextTokens)
         /\ result[1].text = Decode(tokenizer, TextTokens)
         /\ Len(result) = 1 <=> Len(TextTokens) <= chunk_size - chunk_overlap

\* C5's case: a text of several tokens within one stride of a chunker with
\* overlap.
C5_Witness ==
    /\ ChunkDone /\ ValidConfig /\ chunk_overlap > 0
    /\ Len(TextTokens) >= 2 /\ Len(TextTokens) <= chunk_size - chunk_overlap
    /\ Len(result) = 1

RECURSIVE SumTextLen(_)
SumTextLen(chunks) ==
    IF chunks = <<>> THEN 0
    ELSE Len(Head(chunks).text) + SumTextLen(Tail(chunks))

\* C6: with chunk_overlap = 0 chunk's chunks are laid end to end: the first
\* starts at 0, each next one starts where the previous ends, and the last
\* ends at the sum of the chunk text lengths.
C6_Contiguous ==
    (ChunkDone /\ chunk_overlap = 0 /\ result # <<>>) =>
        /\ result[1].start_index = 0
        /\ \A k \in DOMAIN result :
              k > 1 => result[k].start_index = result[k - 1].end_index
        /\ result[Len(result)].end_index = SumTextLen(result)

\* C6's case: several non-empty chunks without overlap.
C6_Witness ==
    /\ ChunkDone /\ chunk_overlap = 0
    /\ Len(result) >= 2
    /\ \A k \in DOMAIN result : result[k].text # <<>>

\* C7: chunk_batch with a batch_size returns what chunk_batch without one
\* returns: one chunk sequence per text, in input order.
C7_BatchSizeIrrelevant ==
    (BatchDone /\ in_batch_size # None) =>
        /\ Len(result) = Len(in_texts)
        /\ result = ProcessTextBatch(tokenizer, chunk_size, chunk_overlap,
                                     in_texts).result

\* C7's case: texts split into several sub-batches, with chunks to return.
C7_Witness ==
    /\ BatchDone /\ in_batch_size # None
    /\ in_batch_size < Len(in_texts)
    /\ \A i \in DOMAIN result : Len(result[i]) >= 2
    /\ result[1] # result[2]

\* A tokenizer call made for an empty text: an encode of it, a batched encode
\* holding it, or a decode of its (empty) token groups.
ForEmptyText(call) ==
    \/ call.op = "encode" /\ call.arg = <<>>
    \/ call.op = "encode_batch" /\ \E j \in DOMAIN call.arg : call.arg[j] = <<>>
    \/ call.op \in {"decode", "decode_batch"} /\ call.arg = <<>>

HasEmptyText == \E i \in DOMAIN in_texts : in_texts[i] = <<>>

\* C8 as stated: an empty text of a batch yields an empty chunk sequence and
\* no tokenizer call at all is made for it.
C8_Original ==
    (BatchDone /\ ValidConfig /\ HasEmptyText) =>
        /\ \A i \in DOMAIN in_texts : in_texts[i] = <<>> => result[i] = <<>>
        /\ \A c \in DOMAIN calls : ~ForEmptyText(calls[c])

CallsOf(ops) == SelectSeq(calls, LAMBDA c : c.op \in ops)

\* The texts whose token sequence is not empty.
TokenizedTexts ==
    {i \in DOMAIN in_texts : Encode(tokenizer, in_texts[i]) # <<>>}

\* C8 amended: an empty text of a batch yields an empty chunk sequence and
\* no decode call; it is passed to the tokenizer once, in the encode_batch
\* call of its sub-batch.  Decode calls are made only for texts with tokens:
\* one, and one more when chunk_overlap > 0.
C8_EmptyText ==
    (BatchDone /\ HasEmptyText) =>
        /\ \A i \in DOMAIN in_texts : in_texts[i] = <<>> => result[i] = <<>>
        /\ CallsOf({"encode", "decode"}) = <<>>
        /\ \A c \in DOMAIN calls :
              calls[c].op = "decode_batch" => calls[c].arg # <<>>
        /\ Len(CallsOf({"decode_batch"}))
             = Cardinality(TokenizedTexts) * (IF chunk_overlap > 0 THEN 2 ELSE 1)
        /\ LET enc == CallsOf({"encode_batch"})
           IN  Concat([c \in DOMAIN enc |-> enc[c].arg]) = in_texts

\* C8's case: an empty text and a text with tokens, one sub-batch each.
C8_Witness ==
    /\ BatchDone
    /\ in_batch_size = 1
    /\ Len(in_texts) = 2
    /\ in_texts[1] = <<>>
    /\ result[1] = <<>>
    /\ Len(result[2]) = 1

\* C9: chunk on an empty or whitespace-only text returns no chunk and makes
\* no tokenizer call.
C9_BlankText ==
    (ChunkDone /\ OnlyWhitespace(in_text)) => result = <<>> /\ calls = <<>>

\* C9's case: a whitespace-only text that the tokenizer would give tokens.
C9_Witness ==
    /\ ChunkDone
    /\ in_text # <<>> /\ OnlyWhitespace(in_text)
    /\ TextTokens # <<>>
    /\ result = <<>>

\* C10: with the character tokenizer (decode concatenates the tokens'
\* strings, decode(encode(t)) = t) and a valid configuration, every chunk
\* of chunk(text) has text[start_index:end_index] = chunk.text.
C10_Original ==
    (ChunkDone /\ ValidConfig /\ tokenizer = "char") =>
        \A k \in DOMAIN result :
            /\ 0 <= result[k].start_index
            /\ result[k].end_index <= Len(in_text)
            /\ SubSeq(in_text, result[k].start_index + 1, result[k].end_index)
                 = result[k].text

=============================================================================
